---- MODULE Spec2Model ----
(***************************************************************************)
(* GanttViewComponent (gantt-view.component.ts): the date range and unit   *)
(* width computation, the dependency-line cache, the draw pass and the     *)
(* hover / tooltip handlers, as a state machine.                           *)
(*                                                                         *)
(* Time is counted in whole hours since 1970-01-01T00:00 and the local     *)
(* time zone is taken to be UTC without daylight saving, so that the       *)
(* source's millisecond arithmetic (1000*60*60*24 per day) becomes         *)
(* arithmetic on hours (HoursPerDay per day).  Pixel positions are exact   *)
(* rationals <<numerator, denominator>>.                                   *)
(***************************************************************************)
EXTENDS Integers, Sequences, FiniteSets, TLC

VARIABLES
    tasks,                \* @Input tasks: sequence of task objects
    relationships,        \* @Input relationships: sequence of relationships
    viewMode,             \* @Input viewMode
    showTooltips,         \* @Input showTooltips
    showRelationships,    \* @Input showRelationships
    canvasRef,            \* TRUE when the #ganttCanvas view child exists
    canvasWidth,          \* canvasRef.nativeElement.width
    ctx,                  \* TRUE when this.ctx is a 2D context, FALSE when null
    startDate,            \* this.startDate (Undefined before the first range)
    endDate,              \* this.endDate
    relationshipLines,    \* this.relationshipLines: the cached line objects
    hoveredRelationship,  \* this.hoveredRelationship: a line object or Null
    hoveredTask,          \* this.hoveredTask: a task object or Null
    tooltip,              \* this.tooltip: Null or the element's display/content
    relationshipTooltip,  \* this.relationshipTooltip: Null or display/content
    cursor,               \* canvas.style.cursor
    canvas,               \* what the last draw pass painted (bars, lines)
    body,                 \* document.body: how many tooltip elements it holds
    phase,                \* "constructed", "ready" or "destroyed"
    ev                    \* the last handler that ran, with its inputs

vars == <<tasks, relationships, viewMode, showTooltips, showRelationships,
          canvasRef, canvasWidth, ctx, startDate, endDate, relationshipLines,
          hoveredRelationship, hoveredTask, tooltip, relationshipTooltip,
          cursor, canvas, body, phase, ev>>

\* A nullable reference is Null or Some(object); undefined is Undefined.
Null == <<>>
Some(x) == <<x>>
Undefined == <<>>

-----------------------------------------------------------------------------
(* Program constants *)

HoursPerDay == 24
headerHeight == 100
rowHeight == 40
barHeight == 20
RELATIONSHIP_WIDTH == 2
DefaultCanvasWidth == 800
PaddingDivisor == 20

ViewModes == {"day", "week", "month", "year"}

UNIT_WIDTHS ==
    [m \in ViewModes |->
        CASE m = "day"   -> [min |-> 20,  max |-> 40,  optimal |-> 30]
          [] m = "week"  -> [min |-> 60,  max |-> 120, optimal |-> 80]
          [] m = "month" -> [min |-> 80,  max |-> 150, optimal |-> 100]
          [] m = "year"  -> [min |-> 150, max |-> 300, optimal |-> 200]]

RelationshipTypes == {"FS", "SS", "FF", "SF"}

-----------------------------------------------------------------------------
(* Integer and rational arithmetic *)

Abs(n) == IF n < 0 THEN -n ELSE n

\* Math.ceil(n / d) for d > 0, as an integer (the sign of a zero result is
\* kept apart, see getTotalDays).
CeilDiv(n, d) == -((-n) \div d)

\* ToIntegerOrInfinity(n / d) for d > 0: truncation toward zero.
TruncDiv(n, d) == IF n >= 0 THEN n \div d ELSE -((-n) \div d)

RECURSIVE Gcd(_, _)
Gcd(a, b) == IF b = 0 THEN a ELSE Gcd(b, a % b)

\* The rational n/d (d # 0) in lowest terms with a positive denominator.
Rat(n, d) ==
    LET g == Gcd(Abs(n), Abs(d))
        s == IF d < 0 THEN -1 ELSE 1
    IN  <<s * (n \div g), s * (d \div g)>>

RInt(n) == <<n, 1>>
RAdd(a, b) == Rat(a[1] * b[2] + b[1] * a[2], a[2] * b[2])
RSub(a, b) == Rat(a[1] * b[2] - b[1] * a[2], a[2] * b[2])
RMul(a, b) == Rat(a[1] * b[1], a[2] * b[2])
RDivInt(a, n) == Rat(a[1], a[2] * n)
RLeq(a, b) == a[1] * b[2] <= b[1] * a[2]
RLt(a, b) == a[1] * b[2] < b[1] * a[2]
RMax(a, b) == IF RLeq(a, b) THEN b ELSE a
RMin(a, b) == IF RLeq(a, b) THEN a ELSE b

\* const x = v; F(x): the value is computed once and named.
With(v, F(_)) == F(v)

SetMin(S) == CHOOSE x \in S : \A y \in S : x <= y
SetMax(S) == CHOOSE x \in S : \A y \in S : y <= x

-----------------------------------------------------------------------------
(* The Date built-in, on hours since 1970-01-01T00:00 (proleptic Gregorian *)
(* calendar, computed as the runtime computes it).                         *)

DayOf(t) == t \div HoursPerDay

\* Day number since 1970-01-01 of year y, month index mi (0..11), day d.
DaysFromCivil(y, mi, d) ==
    With(IF mi + 1 <= 2 THEN y - 1 ELSE y, LAMBDA yy :
    With(yy \div 400, LAMBDA era :
    With(yy - era * 400, LAMBDA yoe :
    With((153 * (IF mi + 1 > 2 THEN mi - 2 ELSE mi + 10) + 2) \div 5 + d - 1,
         LAMBDA doy :
        era * 146097 + (yoe * 365 + yoe \div 4 - yoe \div 100 + doy)
            - 719468))))

\* [y, m (0..11), d] of a day number since 1970-01-01.
CivilFromDays(z0) ==
    With(z0 + 719468, LAMBDA z :
    With(z \div 146097, LAMBDA era :
    With(z - era * 146097, LAMBDA doe :
    With((doe - doe \div 1460 + doe \div 36524 - doe \div 146096) \div 365,
         LAMBDA yoe :
    With(doe - (365 * yoe + yoe \div 4 - yoe \div 100), LAMBDA doy :
    With((5 * doy + 2) \div 153, LAMBDA mp :
    With(IF mp < 10 THEN mp + 3 ELSE mp - 9, LAMBDA m :
        [y |-> yoe + era * 400 + (IF m <= 2 THEN 1 ELSE 0),
         m |-> m - 1,
         d |-> doy - (153 * mp + 2) \div 5 + 1])))))))

\* new Date(year, monthIndex, day, hours)
NewDate(y, mi, d, h) == DaysFromCivil(y, mi, d) * HoursPerDay + h

getFullYear(t) == CivilFromDays(DayOf(t)).y
getMonth(t) == CivilFromDays(DayOf(t)).m
getDate(t) == CivilFromDays(DayOf(t)).d

\* date.setDate(getDate() + n/den): the day of month becomes the argument
\* truncated toward zero; days outside the month roll over linearly.
setDatePlus(t, n, den) ==
    With(getDate(t), LAMBDA d :
        t + (TruncDiv(d * den + n, den) - d) * HoursPerDay)

-----------------------------------------------------------------------------
(* Numbers that may be infinite or a signed zero.                          *)
(* A count of days or units is [v, negZero]: the integer v, and whether a  *)
(* zero is the negative zero that Math.ceil returns for an argument in     *)
(* (-1, 0).  A quotient is a rational, PosInf or NegInf (written as the    *)
(* pairs <<1, 0>> and <<-1, 0>>, which no rational in lowest terms is).    *)

PosInf == <<1, 0>>
NegInf == <<-1, 0>>

\* cw / u for a positive integer cw and a count u.
Divide(cw, u) ==
    IF u.v # 0 THEN Rat(cw, u.v)
    ELSE IF u.negZero THEN NegInf ELSE PosInf

\* Math.min(a, b) and Math.max(a, b), a rational and b a quotient.
MathMin(a, b) ==
    IF b = PosInf THEN a
    ELSE IF b = NegInf THEN NegInf
    ELSE RMin(a, b)

MathMax(a, b) ==
    IF b = PosInf THEN PosInf
    ELSE IF b = NegInf THEN a
    ELSE RMax(a, b)

-----------------------------------------------------------------------------
(* TimeAxis helpers.  c is the component: a record of its fields.          *)

getTotalDays(c) ==
    With(c.endDate - c.startDate, LAMBDA diff :
        [v |-> CeilDiv(diff, HoursPerDay),
         negZero |-> diff < 0 /\ diff > -HoursPerDay])

getTotalUnits(c) ==
    CASE c.viewMode = "day" -> getTotalDays(c)
      [] c.viewMode = "week" ->
            With(getTotalDays(c), LAMBDA td :
                [v |-> CeilDiv(td.v, 7),
                 negZero |-> td.negZero \/ (td.v < 0 /\ td.v > -7)])
      [] c.viewMode = "month" ->
            [v |-> (getFullYear(c.endDate) - getFullYear(c.startDate)) * 12
                   + (getMonth(c.endDate) - getMonth(c.startDate)) + 1,
             negZero |-> FALSE]
      [] c.viewMode = "year" ->
            [v |-> getFullYear(c.endDate) - getFullYear(c.startDate) + 1,
             negZero |-> FALSE]

calculateCanvasWidth(c) ==
    IF c.canvasRef /\ c.canvasWidth # 0 THEN c.canvasWidth
    ELSE DefaultCanvasWidth

getOptimalUnitWidth(c) ==
    With(UNIT_WIDTHS[c.viewMode], LAMBDA config :
        MathMax(RInt(config.min),
                MathMin(RInt(config.max),
                        Divide(calculateCanvasWidth(c), getTotalUnits(c)))))

\* (date - startDate) / one day, as a rational number of days.
daysDiff(c, date) == Rat(date - c.startDate, HoursPerDay)

getXPositionForDate(c, date) ==
    With(getOptimalUnitWidth(c), LAMBDA unitWidth :
        CASE c.viewMode = "day" -> RMul(daysDiff(c, date), unitWidth)
          [] c.viewMode = "week" ->
                RMul(RDivInt(daysDiff(c, date), 7), unitWidth)
          [] c.viewMode = "month" ->
                RMul(RInt((getFullYear(date) - getFullYear(c.startDate)) * 12
                          + (getMonth(date) - getMonth(c.startDate))),
                     unitWidth)
          [] c.viewMode = "year" ->
                RMul(RInt(getFullYear(date) - getFullYear(c.startDate)),
                     unitWidth))

Range(f) == {f[i] : i \in DOMAIN f}

\* The range of the tasks, each end moved by paddingDays =
\* getTotalDays() * 0.05 = days / PaddingDivisor.
padRange(c, days) ==
    [c EXCEPT !.startDate = setDatePlus(c.startDate, -days, PaddingDivisor),
              !.endDate = setDatePlus(c.endDate, days, PaddingDivisor)]

\* now: the instant new Date() returns.
initializeDateRange(c, now) ==
    IF Len(c.tasks) = 0
    THEN [c EXCEPT !.startDate = NewDate(getFullYear(now), 0, 1, 0),
                   !.endDate = NewDate(getFullYear(now) + 1, 0, 1, 0)]
    ELSE With([c EXCEPT
                 !.startDate = SetMin({t.start : t \in Range(c.tasks)}),
                 !.endDate = SetMax({t.end : t \in Range(c.tasks)})],
              LAMBDA c0 : padRange(c0, getTotalDays(c0).v))

-----------------------------------------------------------------------------
(* Dependency lines *)

\* tasks.findIndex(t => t.id === id): the first index, 0 when there is none
\* (indices are 1-based here, the row of index i is row i - 1).
findIndex(ts, id) ==
    IF \E i \in DOMAIN ts : ts[i].id = id
    THEN SetMin({i \in DOMAIN ts : ts[i].id = id})
    ELSE 0

\* new Map(tasks.map(t => [t.id, t])).get(id): the last task with that id.
taskMapGet(ts, id) ==
    IF \E i \in DOMAIN ts : ts[i].id = id
    THEN Some(ts[SetMax({i \in DOMAIN ts : ts[i].id = id})])
    ELSE Undefined

\* The line object of a relationship whose tasks are src and tgt.  obj is
\* the identity of the new object (see drawRelationships).
lineBetween(c, rel, src, tgt) ==
    With(getXPositionForDate(c,
            IF rel.type \in {"FS", "SS"} THEN tgt.start ELSE tgt.end),
         LAMBDA toX :
        [id |-> rel.id,
         fromX |-> getXPositionForDate(c,
                      IF rel.type \in {"FS", "FF"} THEN src.end ELSE src.start),
         fromY |-> headerHeight + (findIndex(c.tasks, src.id) - 1) * rowHeight
                   + rowHeight \div 2,
         toX |-> IF rel.lag # 0
                 THEN RAdd(toX, RMul(RInt(rel.lag), getOptimalUnitWidth(c)))
                 ELSE toX,
         toY |-> headerHeight + (findIndex(c.tasks, tgt.id) - 1) * rowHeight
                 + rowHeight \div 2,
         type |-> rel.type, sourceTask |-> src, targetTask |-> tgt,
         lag |-> rel.lag, obj |-> 0])

\* The line of one relationship, or Undefined when it is skipped.
lineOf(c, rel) ==
    With(taskMapGet(c.tasks, rel.sourceId), LAMBDA sourceTask :
    With(taskMapGet(c.tasks, rel.targetId), LAMBDA targetTask :
        IF sourceTask = Undefined \/ targetTask = Undefined THEN Undefined
        ELSE Some(lineBetween(c, rel, sourceTask[1], targetTask[1]))))

RECURSIVE linesFrom(_, _, _)
linesFrom(c, rels, lines) ==
    IF rels = <<>> THEN lines
    ELSE With(lineOf(c, Head(rels)), LAMBDA l :
            linesFrom(c, Tail(rels),
                IF l = Undefined THEN lines
                ELSE Append(lines, [l[1] EXCEPT !.obj = Len(lines) + 1])))

calculateRelationshipLines(c) == linesFrom(c, c.relationships, <<>>)

-----------------------------------------------------------------------------
(* The draw pass.  Of what is painted the model keeps the task bars and    *)
(* the dependency lines; the header ticks, the grid and the today marker   *)
(* read the state and change none of it.                                   *)

EmptyCanvas == [bars |-> <<>>, lines |-> <<>>]

\* What tasks.forEach paints for the task at index i (1-based).
barOf(c, i) ==
    With(c.tasks[i], LAMBDA task :
    With(getXPositionForDate(c, task.start), LAMBDA startX :
    With(RMax(RSub(getXPositionForDate(c, task.end), startX), RInt(2)),
         LAMBDA width :
        [id |-> task.id, x |-> startX,
         y |-> headerHeight + (i - 1) * rowHeight
               + (rowHeight - barHeight) \div 2,
         width |-> width,
         progress |-> IF task.progress # 0 /\ task.progress > 0
                      THEN Some(RDivInt(RMul(width, RInt(task.progress)), 100))
                      ELSE Null,
         name |-> RLt(RInt(60), width)])))

drawTasks(c) ==
    IF ~c.ctx \/ Len(c.tasks) = 0 THEN c
    ELSE [c EXCEPT !.canvas.bars = [i \in DOMAIN c.tasks |-> barOf(c, i)]]

\* The stroke drawRelationshipLine paints for one line.
strokeOf(c, line) ==
    With(c.hoveredRelationship = Some(line), LAMBDA isHovered :
        [id |-> line.id,
         lineWidth |-> IF isHovered THEN RELATIONSHIP_WIDTH + 1
                       ELSE RELATIONSHIP_WIDTH,
         darkened |-> isHovered,
         arrow |-> IF RLt(line.fromX, line.toX) THEN "0" ELSE "PI"])

drawRelationshipLine(c, line) ==
    IF ~c.ctx THEN c
    ELSE [c EXCEPT !.canvas.lines = Append(@, strokeOf(c, line))]

RECURSIVE drawLines(_, _)
drawLines(c, lines) ==
    IF lines = <<>> THEN c
    ELSE drawLines(drawRelationshipLine(c, Head(lines)), Tail(lines))

\* Every call of calculateRelationshipLines allocates new line objects.  The
\* objects of the cache are numbered 1..n by position; an object a field
\* still refers to after the cache was replaced is renumbered 0, which no
\* object of any later cache is, so that equality of line records is
\* reference equality (===).
retire(h) == IF h = Null THEN Null ELSE Some([h[1] EXCEPT !.obj = 0])

drawRelationships(c) ==
    IF ~c.ctx \/ Len(c.relationships) = 0 THEN c
    ELSE With(calculateRelationshipLines(c), LAMBDA lines :
            drawLines([c EXCEPT !.relationshipLines = lines,
                                !.hoveredRelationship = retire(@)],
                      lines))

\* draws counts the repaints of the handler that is running.
drawChart(c) ==
    IF ~c.ctx THEN c
    ELSE With(drawTasks([c EXCEPT !.canvas = EmptyCanvas, !.draws = @ + 1]),
              LAMBDA c2 :
                IF c2.showRelationships THEN drawRelationships(c2) ELSE c2)

\* container: Null when the canvas has no parent element, else
\* Some(clientWidth).  Assigning canvas.width clears the bitmap.
setupCanvas(c, container) ==
    IF ~c.canvasRef THEN c
    ELSE IF container = Null THEN c
    ELSE [c EXCEPT !.canvasWidth = container[1], !.canvas = EmptyCanvas,
                   !.ctx = TRUE]

-----------------------------------------------------------------------------
(* Tooltips *)

createTooltipElement(c) ==
    IF c.tooltip # Null THEN c
    ELSE [c EXCEPT !.tooltip = Some([display |-> "", content |-> Null]),
                   !.body.tooltip = @ + 1]

createRelationshipTooltipElement(c) ==
    IF c.relationshipTooltip # Null THEN c
    ELSE [c EXCEPT
            !.relationshipTooltip = Some([display |-> "", content |-> Null]),
            !.body.relationshipTooltip = @ + 1]

positionTooltip(c) ==
    IF c.tooltip = Null THEN c
    ELSE [c EXCEPT !.tooltip[1].display = "block"]

hideTooltip(c) ==
    IF c.tooltip # Null THEN [c EXCEPT !.tooltip[1].display = "none"] ELSE c

hideRelationshipTooltip(c) ==
    IF c.relationshipTooltip # Null
    THEN [c EXCEPT !.relationshipTooltip[1].display = "none"]
    ELSE c

\* The innerHTML written for a task: its name, dates, duration and progress
\* are all read from the task object.
showTooltip(c, task) ==
    IF ~c.showTooltips \/ c.hoveredTask = Some(task) THEN c
    ELSE With(createTooltipElement([c EXCEPT !.hoveredTask = Some(task)]),
              LAMBDA c1 :
                IF c1.tooltip = Null THEN c1
                ELSE positionTooltip(
                        [c1 EXCEPT !.tooltip[1].content = Some(task.id)]))

\* The innerHTML written for a line; style.left and style.top are set, the
\* display is not.
showRelationshipTooltip(c, rel) ==
    With(createRelationshipTooltipElement(c), LAMBDA c1 :
        IF c1.relationshipTooltip = Null THEN c1
        ELSE [c1 EXCEPT !.relationshipTooltip[1].content = Some(rel.id)])

\* Teardown that releases the task tooltip only.
removeTooltips_TaskOnly(c) ==
    IF c.tooltip # Null
    THEN [c EXCEPT !.body.tooltip = @ - 1, !.tooltip = Null]
    ELSE c

removeTooltips(c) ==
    With(IF c.tooltip # Null
         THEN [c EXCEPT !.body.tooltip = @ - 1, !.tooltip = Null]
         ELSE c,
         LAMBDA c1 :
            IF c1.relationshipTooltip # Null
            THEN [c1 EXCEPT !.body.relationshipTooltip = @ - 1,
                            !.relationshipTooltip = Null]
            ELSE c1)

-----------------------------------------------------------------------------
(* Hit-testing and hover *)

\* The hit test without its upper limit (x <= taskEndX dropped).
taskIfWithin_NoEndTest(c, task, x) ==
    IF RLeq(getXPositionForDate(c, task.start), RInt(x))
    THEN Some(task)
    ELSE Null

\* The hit test of getTaskAtPosition for the task of one row.
taskIfWithin(c, task, x) ==
    IF RLeq(getXPositionForDate(c, task.start), RInt(x))
       /\ RLeq(RInt(x), getXPositionForDate(c, task.end))
    THEN Some(task)
    ELSE Null

getTaskAtPosition(c, x, y) ==
    IF y < headerHeight THEN Null
    ELSE With((y - headerHeight) \div rowHeight, LAMBDA rowIndex :
            IF rowIndex >= 0 /\ rowIndex < Len(c.tasks)
            THEN taskIfWithin(c, c.tasks[rowIndex + 1], x)
            ELSE Null)

\* ctx.isPointInStroke(line.path, x, y) is the canvas's answer.  A cubic
\* Bezier curve lies in the convex hull of its control points, here the box
\* spanned by (fromX, fromY) and (toX, toY), and its stroke reaches at most
\* the line width beyond it: outside that the answer is false, inside it the
\* answer is either.
mayBeInStroke(line, x, y) ==
    /\ RLeq(RMin(line.fromX, line.toX), RInt(x + RELATIONSHIP_WIDTH + 1))
    /\ RLeq(RInt(x - RELATIONSHIP_WIDTH - 1), RMax(line.fromX, line.toX))
    /\ (IF line.fromY < line.toY THEN line.fromY ELSE line.toY)
            <= y + RELATIONSHIP_WIDTH + 1
    /\ y - RELATIONSHIP_WIDTH - 1
            <= (IF line.fromY < line.toY THEN line.toY ELSE line.fromY)

\* The sets of cache positions isPointInStroke may answer true for.
StrokeAnswers(c, x, y) ==
    IF ~c.ctx THEN {{}}
    ELSE SUBSET {i \in DOMAIN c.relationshipLines :
                    mayBeInStroke(c.relationshipLines[i], x, y)}

\* relationshipLines.find(line => ctx?.isPointInStroke(line.path, x, y))
findHovered(c, strokes) ==
    IF strokes = {} THEN Undefined
    ELSE Some(c.relationshipLines[SetMin(strokes)])

handleRelationshipHover(c, strokes) ==
    IF ~c.showRelationships \/ ~c.showTooltips THEN c
    ELSE With(findHovered(c, strokes), LAMBDA hovered :
            IF hovered # Undefined
            THEN [showRelationshipTooltip(
                     drawChart([c EXCEPT !.hoveredRelationship = hovered]),
                     hovered[1])
                  EXCEPT !.cursor = "pointer"]
            ELSE hideRelationshipTooltip(
                    IF c.hoveredRelationship # Null
                    THEN drawChart([c EXCEPT !.hoveredRelationship = Null])
                    ELSE c))

handleTaskHover(c, x, y) ==
    IF ~c.showTooltips THEN c
    ELSE With(getTaskAtPosition(c, x, y), LAMBDA hovered :
            IF hovered # Null
            THEN [showTooltip(c, hovered[1]) EXCEPT !.cursor = "pointer"]
            ELSE [hideTooltip(c) EXCEPT !.cursor = "default"])

-----------------------------------------------------------------------------
(* What the host binds and the environment supplies *)

MaxTasks == 2
MaxRels == 2

TaskA == [id |-> "A", start |-> NewDate(2024, 0, 1, 0),
          end |-> NewDate(2024, 0, 10, 0), progress |-> 50]
TaskB == [id |-> "B", start |-> NewDate(2024, 0, 12, 0),
          end |-> NewDate(2024, 0, 21, 0), progress |-> 150]
\* end twelve hours before start
TaskC == [id |-> "C", start |-> NewDate(2024, 0, 10, 12),
          end |-> NewDate(2024, 0, 10, 0), progress |-> 0]
\* end three days before start
TaskD == [id |-> "D", start |-> NewDate(2024, 0, 10, 0),
          end |-> NewDate(2024, 0, 7, 0), progress |-> -10]
\* start = end
TaskE == [id |-> "E", start |-> NewDate(2024, 1, 1, 0),
          end |-> NewDate(2024, 1, 1, 0), progress |-> 100]

\* Task objects are drawn from a fixed pool whose members differ in content,
\* so equality of task records is reference equality.
TaskPool == {TaskA, TaskB, TaskC, TaskD, TaskE}
HoverTaskPool == {TaskA, TaskB}

Rel1 == [id |-> "r1", sourceId |-> "A", targetId |-> "B", type |-> "FS",
         lag |-> 0]
Rel2 == [id |-> "r2", sourceId |-> "B", targetId |-> "A", type |-> "SF",
         lag |-> 2]
RelPool == {Rel1, Rel2}

\* The lists of at most n distinct members of pool.
ListsOf(pool, n) ==
    UNION {{f \in [1..k -> pool] : \A i, j \in 1..k : i # j => f[i] # f[j]}
           : k \in 0..n}

AllTaskLists == ListsOf(TaskPool, MaxTasks)
HoverTaskLists == ListsOf(HoverTaskPool, MaxTasks)
RelLists == ListsOf(RelPool, MaxRels)

ContainerWidths == {0, 300}
Containers == {Null} \cup {Some(w) : w \in ContainerWidths}
DataContainers == {Null, Some(300)}

\* The instants new Date() may return.
NowSet == {NewDate(2023, 11, 31, 23), NewDate(2024, 0, 15, 9)}
HoverNow == {NewDate(2024, 0, 15, 9)}

\* Pointer positions <<x, y>> relative to the canvas.
PointerPositions ==
    {<<100, 50>>, <<100, 120>>, <<220, 120>>, <<400, 120>>, <<400, 160>>,
     <<220, 200>>}

\* Pointer positions for hit-testing: around the header bottom and the
\* row boundaries, left of, inside and right of the bars.
HitXs == {0, 20, 100, 400}
HitYs == {99, 100, 139, 140}
HitPositions == {<<x, y>> : x \in HitXs, y \in HitYs}

\* Hit-testing reads the canvas width only (0 falls back to the default).
HitContainers == {Some(w) : w \in ContainerWidths}

-----------------------------------------------------------------------------
(* The state machine *)

\* The component's fields as one record; draws counts the repaints of the
\* handler that is running.
This ==
    [tasks |-> tasks, relationships |-> relationships, viewMode |-> viewMode,
     showTooltips |-> showTooltips, showRelationships |-> showRelationships,
     canvasRef |-> canvasRef, canvasWidth |-> canvasWidth, ctx |-> ctx,
     startDate |-> startDate, endDate |-> endDate,
     relationshipLines |-> relationshipLines,
     hoveredRelationship |-> hoveredRelationship, hoveredTask |-> hoveredTask,
     tooltip |-> tooltip, relationshipTooltip |-> relationshipTooltip,
     cursor |-> cursor, canvas |-> canvas, body |-> body, draws |-> 0]

\* The last handler: its name, the instant it read from the clock (0 when
\* it read none), the pointer position and the first cached line whose
\* stroke the canvas reported the pointer in (pointer moves), the line
\* hovered before it ran, and the number of repaints it made.
Event(op, now, x, y, line, before, draws) ==
    [op |-> op, now |-> now, x |-> x, y |-> y, line |-> line,
     before |-> before, draws |-> draws]

\* The handler returns: c is the component as it leaves it.
Commit(c, op, now, x, y, line, before, ph) ==
    /\ tasks' = c.tasks
    /\ relationships' = c.relationships
    /\ viewMode' = c.viewMode
    /\ showTooltips' = c.showTooltips
    /\ showRelationships' = c.showRelationships
    /\ canvasRef' = c.canvasRef
    /\ canvasWidth' = c.canvasWidth
    /\ ctx' = c.ctx
    /\ startDate' = c.startDate
    /\ endDate' = c.endDate
    /\ relationshipLines' = c.relationshipLines
    /\ hoveredRelationship' = c.hoveredRelationship
    /\ hoveredTask' = c.hoveredTask
    /\ tooltip' = c.tooltip
    /\ relationshipTooltip' = c.relationshipTooltip
    /\ cursor' = c.cursor
    /\ canvas' = c.canvas
    /\ body' = c.body
    /\ phase' = ph
    /\ ev' = Event(op, now, x, y, line, before, c.draws)

Simple(c, op, now, ph) == Commit(c, op, now, 0, 0, Null, Null, ph)

InitWith(taskLists, relLists, modes, flags) ==
    /\ tasks \in taskLists
    /\ relationships \in relLists
    /\ viewMode \in modes
    /\ showTooltips \in flags
    /\ showRelationships \in flags
    /\ canvasRef \in flags
    /\ canvasWidth \in ContainerWidths
    /\ ctx = FALSE
    /\ startDate = Undefined
    /\ endDate = Undefined
    /\ relationshipLines = <<>>
    /\ hoveredRelationship = Null
    /\ hoveredTask = Null
    /\ tooltip = Null
    /\ relationshipTooltip = Null
    /\ cursor = ""
    /\ canvas = EmptyCanvas
    /\ body = [tooltip |-> 0, relationshipTooltip |-> 0]
    /\ phase = "constructed"
    /\ ev = Event("new", 0, 0, 0, Null, Null, 0)

ngAfterViewInit(nows, containers) ==
    /\ phase = "constructed"
    /\ \E now \in nows, container \in containers :
         Simple(drawChart(setupCanvas(initializeDateRange(This, now),
                                      container)),
                "ngAfterViewInit", now, "ready")

ngOnDestroy ==
    /\ phase = "ready"
    /\ Simple(removeTooltips(This), "ngOnDestroy", 0, "destroyed")

onResize ==
    /\ phase = "ready"
    /\ \E container \in Containers :
         Simple(drawChart(setupCanvas(This, container)), "onResize", 0, phase)

\* The first cached line the canvas reports the pointer in, by id.
firstLine(strokes) ==
    IF strokes = {} THEN Null
    ELSE Some(relationshipLines[SetMin(strokes)].id)

onMouseMove(positions) ==
    /\ phase = "ready"
    /\ \E p \in positions :
         \E strokes \in StrokeAnswers(This, p[1], p[2]) :
           Commit(IF ~canvasRef THEN This
                  ELSE handleTaskHover(handleRelationshipHover(This, strokes),
                                       p[1], p[2]),
                  "onMouseMove", 0, p[1], p[2], firstLine(strokes),
                  hoveredRelationship, phase)

onMouseLeave ==
    /\ phase = "ready"
    /\ Simple(IF canvasRef
              THEN [hideRelationshipTooltip(hideTooltip(This))
                    EXCEPT !.cursor = "default"]
              ELSE hideRelationshipTooltip(hideTooltip(This)),
              "onMouseLeave", 0, phase)

refresh(nows, containers) ==
    /\ phase = "ready"
    /\ \E now \in nows, container \in containers :
         Simple(drawChart(setupCanvas(initializeDateRange(This, now),
                                      container)),
                "refresh", now, phase)

\* The host binds another task list (nothing is recomputed until refresh).
SetTasks(taskLists) ==
    /\ phase = "ready"
    /\ \E ts \in taskLists \ {tasks} :
         Simple([This EXCEPT !.tasks = ts], "tasks", 0, phase)

SetRelationships ==
    /\ phase = "ready"
    /\ \E rs \in RelLists \ {relationships} :
         Simple([This EXCEPT !.relationships = rs], "relationships", 0, phase)

SetViewMode ==
    /\ phase = "ready"
    /\ \E m \in ViewModes \ {viewMode} :
         Simple([This EXCEPT !.viewMode = m], "viewMode", 0, phase)

\* Spec: the hover machine.  The host's bindings are those of construction;
\* every lifecycle and pointer handler runs.
Init == InitWith(HoverTaskLists, RelLists, {"day"}, BOOLEAN)

Next ==
    \/ ngAfterViewInit(HoverNow, Containers)
    \/ ngOnDestroy
    \/ onResize
    \/ onMouseMove(PointerPositions)
    \/ onMouseLeave
    \/ refresh(HoverNow, Containers)

Spec == Init /\ [][Next]_vars

\* DataSpec: the host rebinds tasks and relationships between refreshes.
InitData == InitWith(HoverTaskLists, RelLists, {"day"}, {TRUE})

NextData ==
    \/ ngAfterViewInit(HoverNow, DataContainers)
    \/ refresh(HoverNow, DataContainers)
    \/ SetTasks(HoverTaskLists)
    \/ SetRelationships

DataSpec == InitData /\ [][NextData]_vars

\* RangeSpec: the date range and the unit width, over every task list of
\* the pool, every view mode and every canvas width.
InitRange == InitWith(AllTaskLists, {<<>>}, ViewModes, {TRUE})

NextRange ==
    \/ ngAfterViewInit(NowSet, Containers)
    \/ refresh(NowSet, Containers)
    \/ onResize
    \/ SetViewMode

RangeSpec == InitRange /\ [][NextRange]_vars

\* HitSpec: task hit-testing, over every task list of the pool and every
\* view mode.
InitHit == InitWith(AllTaskLists, {<<>>}, ViewModes, {TRUE})

NextHit ==
    \/ ngAfterViewInit(HoverNow, HitContainers)
    \/ onMouseMove(HitPositions)

HitSpec == InitHit /\ [][NextHit]_vars

-----------------------------------------------------------------------------
(* Properties of the hover machine (Spec) *)

Hidden(element) == element = Null \/ element[1].display = "none"
Visible(element) == element # Null /\ element[1].display # "none"

\* The relationship a hover channel value stands for.
RelId(h) == IF h = Null THEN "none" ELSE h[1].id

\* C1: after onMouseLeave both hover channels are cleared, both tooltips
\* are hidden and the cursor is 'default'.
C1_LeaveClearsHover ==
    ev.op = "onMouseLeave" =>
        /\ hoveredTask = Null
        /\ hoveredRelationship = Null
        /\ Hidden(tooltip)
        /\ Hidden(relationshipTooltip)
        /\ (canvasRef => cursor = "default")

\* C2: with showTooltips on and a drawing surface, after a pointer move onto
\* the bar of task T the task tooltip is visible with T's content, and after
\* a pointer move onto no bar it is hidden.
C2_TaskTooltipFollowsPointer ==
    (ev.op = "onMouseMove" /\ showTooltips /\ ctx) =>
        LET T == getTaskAtPosition(This, ev.x, ev.y)
        IN  IF T # Null
            THEN Visible(tooltip) /\ tooltip[1].content = Some(T[1].id)
            ELSE Hidden(tooltip)

\* C3: with showTooltips and showRelationships on, after a pointer move onto
\* the stroke of line L the relationship tooltip is visible with L's
\* content, and after a pointer move onto no line it is hidden.
C3_RelationshipTooltipFollowsPointer ==
    (ev.op = "onMouseMove" /\ showTooltips /\ showRelationships /\ canvasRef) =>
        IF ev.line # Null
        THEN Visible(relationshipTooltip)
             /\ relationshipTooltip[1].content = ev.line
        ELSE Hidden(relationshipTooltip)

\* C4: in the repaint of a pointer move that lands on the stroke of line L,
\* the line of L's relationship is painted with the hovered style (width
\* RELATIONSHIP_WIDTH + 1, darkened) and every other line with the normal
\* style.
C4_HoveredLineHighlighted ==
    (ev.op = "onMouseMove" /\ showTooltips /\ showRelationships /\ canvasRef
        /\ ev.line # Null) =>
        /\ \E i \in DOMAIN canvas.lines : canvas.lines[i].id = ev.line[1]
        /\ \A i \in DOMAIN canvas.lines :
             LET hovered == (canvas.lines[i].id = ev.line[1])
             IN  /\ canvas.lines[i].darkened = hovered
                 /\ canvas.lines[i].lineWidth =
                        IF hovered THEN RELATIONSHIP_WIDTH + 1
                        ELSE RELATIONSHIP_WIDTH

\* C5: a pointer move repaints exactly when the relationship hovered after
\* it differs from the one hovered before it.
C5_RepaintOnlyOnRelationshipChange ==
    ev.op = "onMouseMove" =>
        ((ev.draws > 0) <=> (RelId(ev.before) # RelId(hoveredRelationship)))

-----------------------------------------------------------------------------
(* Properties of the line cache (DataSpec) *)

HasTask(id) == \E i \in DOMAIN tasks : tasks[i].id = id

\* The relationships of the current list with both ends in the task list.
ResolvableRelationships ==
    SelectSeq(relationships,
              LAMBDA rel : HasTask(rel.sourceId) /\ HasTask(rel.targetId))

\* C6: after refresh with showRelationships on and a drawing surface, the
\* cached lines are exactly one per relationship of the current list whose
\* source and target are both in the current task list, in list order.
C6_CacheMatchesRelationships ==
    (ev.op = "refresh" /\ showRelationships /\ ctx) =>
        /\ Len(relationshipLines) = Len(ResolvableRelationships)
        /\ \A i \in DOMAIN relationshipLines :
             /\ relationshipLines[i].id = ResolvableRelationships[i].id
             /\ relationshipLines[i].sourceTask.id =
                    ResolvableRelationships[i].sourceId
             /\ relationshipLines[i].targetTask.id =
                    ResolvableRelationships[i].targetId

-----------------------------------------------------------------------------
(* Properties of the date range and the unit width (RangeSpec) *)

RangeComputed == ev.op \in {"ngAfterViewInit", "refresh"}

MinStart == SetMin({tasks[i].start : i \in DOMAIN tasks})
MaxEnd == SetMax({tasks[i].end : i \in DOMAIN tasks})

\* C7: for a non-empty task list with start <= end in every task, the range
\* contains every task and the padding is the same whole number of days on
\* both sides, ceil(totalDays * 0.05).
C7_SymmetricPadding ==
    (RangeComputed /\ tasks # <<>>
        /\ \A i \in DOMAIN tasks : tasks[i].start <= tasks[i].end) =>
        LET totalDays == CeilDiv(MaxEnd - MinStart, HoursPerDay)
            paddingDays == CeilDiv(totalDays, PaddingDivisor)
        IN  /\ startDate <= MinStart
            /\ MinStart <= MaxEnd
            /\ MaxEnd <= endDate
            /\ startDate = MinStart - paddingDays * HoursPerDay
            /\ endDate = MaxEnd + paddingDays * HoursPerDay

\* C8: once a range is computed, the effective start date is not after the
\* effective end date, whatever the task list.
C8_StartNotAfterEnd ==
    phase # "constructed" => startDate <= endDate

\* C9: the unit width is canvasWidth / totalUnits clamped into the view
\* mode's [min, max], and max when totalUnits is zero.
C9_UnitWidthClamped ==
    phase # "constructed" =>
        LET config == UNIT_WIDTHS[viewMode]
            totalUnits == getTotalUnits(This).v
            width == getOptimalUnitWidth(This)
            quotient == <<calculateCanvasWidth(This), totalUnits>>
        IN  /\ width[2] > 0
            /\ config.min * width[2] <= width[1]
            /\ width[1] <= config.max * width[2]
            /\ totalUnits = 0 => width = RInt(config.max)
            /\ totalUnits > 0 =>
                 width = IF quotient[1] < config.min * quotient[2]
                         THEN RInt(config.min)
                         ELSE IF quotient[1] > config.max * quotient[2]
                         THEN RInt(config.max)
                         ELSE Rat(quotient[1], quotient[2])
            /\ totalUnits < 0 => width = RInt(config.min)

\* C10: with an empty task list the range is the current calendar year:
\* startDate is January 1 00:00 of the current year and endDate lies in the
\* same year, so that the year view counts one unit.
C10_EmptyListCurrentYear ==
    (RangeComputed /\ tasks = <<>>) =>
        /\ startDate = NewDate(getFullYear(ev.now), 0, 1, 0)
        /\ getFullYear(endDate) = getFullYear(ev.now)
        /\ getTotalUnits([This EXCEPT !.viewMode = "year"]).v = 1

-----------------------------------------------------------------------------
(* Properties of task hit-testing (HitSpec) *)

\* y lies in the row of the task at index i (1-based).
InRow(i, y) ==
    /\ headerHeight + (i - 1) * rowHeight <= y
    /\ y < headerHeight + i * rowHeight

\* (x, y) lies in row i between the x positions of the task's start and end.
OnTask(i, x, y) ==
    /\ InRow(i, y)
    /\ RLeq(getXPositionForDate(This, tasks[i].start), RInt(x))
    /\ RLeq(RInt(x), getXPositionForDate(This, tasks[i].end))

\* C11: for a pointer (x, y) in the row of task T with
\* xForDate(T.start) <= x <= xForDate(T.end), getTaskAtPosition returns T;
\* for any other pointer it returns none.
C11_HitTestRoundTrip ==
    ev.op = "onMouseMove" =>
        /\ \A i \in DOMAIN tasks :
             OnTask(i, ev.x, ev.y) =>
                getTaskAtPosition(This, ev.x, ev.y) = Some(tasks[i])
        /\ (\A i \in DOMAIN tasks : ~OnTask(i, ev.x, ev.y)) =>
                getTaskAtPosition(This, ev.x, ev.y) = Null

\* A pointer move in month view that hit the task of the second row.
C11_Witness ==
    /\ ev.op = "onMouseMove"
    /\ viewMode = "month"
    /\ Len(tasks) = 2
    /\ OnTask(2, ev.x, ev.y)
    /\ hoveredTask = Some(tasks[2])
    /\ cursor = "pointer"

-----------------------------------------------------------------------------
(* Properties of the painted bars (RangeSpec) *)

\* The width of the progress overlay painted on a bar (zero when none is).
OverlayWidth(bar) == IF bar.progress = Null THEN RInt(0) ELSE bar.progress[1]

\* C12: the progress overlay of every painted bar is no wider than the bar
\* and not negative, whatever the progress value, and is
\* barWidth * progress / 100 when progress is within 0..100.
C12_ProgressOverlayClamped ==
    \A i \in DOMAIN canvas.bars :
        /\ RLeq(RInt(0), OverlayWidth(canvas.bars[i]))
        /\ RLeq(OverlayWidth(canvas.bars[i]), canvas.bars[i].width)
        /\ (tasks[i].progress >= 0 /\ tasks[i].progress <= 100) =>
              OverlayWidth(canvas.bars[i]) =
                RDivInt(RMul(canvas.bars[i].width, RInt(tasks[i].progress)),
                        100)

-----------------------------------------------------------------------------
(* Properties of the tooltip elements (Spec) *)

\* The number of elements a handle keeps attached to the page.
Attached(handle) == IF handle = Null THEN 0 ELSE 1

\* C13: at most one task tooltip element and at most one relationship
\* tooltip element are attached to the page, each the one its handle refers
\* to; right after ngOnDestroy none is attached and both handles are null.
C13_TooltipLifecycle ==
    /\ body.tooltip = Attached(tooltip)
    /\ body.relationshipTooltip = Attached(relationshipTooltip)
    /\ ev.op = "ngOnDestroy" =>
          /\ body.tooltip = 0
          /\ body.relationshipTooltip = 0
          /\ tooltip = Null
          /\ relationshipTooltip = Null

\* Teardown after a task and a relationship line were hovered, so that
\* both elements had been created.
C13_Witness ==
    /\ ev.op = "ngOnDestroy"
    /\ hoveredTask # Null
    /\ hoveredRelationship # Null
    /\ body.tooltip = 0
    /\ body.relationshipTooltip = 0

-----------------------------------------------------------------------------
(* Properties of the cursor (Spec) *)

\* C14: with showTooltips and showRelationships on, after a pointer move
\* the cursor is 'pointer' when the pointer is over a task bar or over the
\* stroke of a relationship line, and 'default' otherwise.
C14_CursorFollowsHover ==
    (ev.op = "onMouseMove" /\ showTooltips /\ showRelationships /\ canvasRef) =>
        cursor = IF getTaskAtPosition(This, ev.x, ev.y) # Null \/ ev.line # Null
                 THEN "pointer"
                 ELSE "default"

====
